---- MODULE Spec2Model ----
(***************************************************************************)
(* Run-coordination layer of the AI test orchestrator:                     *)
(*   - PostmanProcessor   (src/src/agents/postman/processors.py), the      *)
(*     consolidator that accumulates one collection across sections;       *)
(*   - BaseAgent.execute / PostmanAgent / MockAgent, the generator tasks;  *)
(*   - TestOrchestrator   (src/src/core/orchestrator.py), the scheduler;   *)
(*   - ResultCompiler     (src/src/core/result_compiler.py);               *)
(*   - FileManager        (src/src/core/file_manager.py), the content-     *)
(*     addressed cache of uploaded input files.                            *)
(*                                                                         *)
(* Four specifications share the variables:                                *)
(*   SpecProc  the public operations of one PostmanProcessor called in any *)
(*             order (generate_collection_files, finalize_and_export_      *)
(*             collection, reset_state);                                   *)
(*   SpecMerge contributions to one PostmanProcessor with every            *)
(*             environment of EnvironmentsData;                            *)
(*   Spec      one TestOrchestrator.execute run, from the upload phase to  *)
(*             the compiled OrchestratorResult;                            *)
(*   SpecCache upload_file calls and process restarts of one FileManager   *)
(*             while the local files change.                               *)
(***************************************************************************)
EXTENDS Integers, Sequences, FiniteSets, TLC

VARIABLES
    processor,   \* the PostmanProcessor's consolidation fields
    files,       \* output directory: path -> content last written
    writes,      \* number of file writes performed so far
    last,        \* the last processor call: operation, outcome, pre-state
    finalized,   \* finalize_and_export_collection calls that returned
    cfg,         \* OrchestratorInput flags, the plan and the agent factory
    pc,          \* position of TestOrchestrator.execute
    cursor,      \* loop position: section index, kind, batch start
    inflight,    \* tasks started and not yet returned
    done,        \* batch tasks that returned, with what they returned
    results,     \* results["csv"], results["karate"], results["postman"]
    faults,      \* failures of collaborators so far (bounded by MaxFaults)
    contributed, \* sections whose Postman items reached the processor
    report,      \* the OrchestratorResult returned by execute
    fs,          \* local input files: path -> what is at the path
    registry,    \* FileManager.registry.files, in insertion order
    registry_file, \* cache/file_registry.json as last saved
    uploaded,    \* contents sent to client.files.create; file id = position
    calls,       \* upload_file calls suspended in _calculate_file_hash
    history      \* completed upload_file calls and process starts

vars == <<processor, files, writes, last, finalized, cfg, pc, cursor,
          inflight, done, results, faults, contributed, report,
          fs, registry, registry_file, uploaded, calls, history>>

cacheVars == <<fs, registry, registry_file, uploaded, calls, history>>

procVars == <<processor, files, writes, last, finalized>>
runVars == <<cfg, pc, cursor, inflight, done, results, faults, contributed, report>>

(***************************************************************************)
(* Bounds                                                                  *)
(***************************************************************************)
MaxSections == 3      \* sections of the plan in Spec
MaxContrib == 2       \* generate_collection_files calls in SpecProc
MaxFinalize == 2      \* finalize_and_export_collection calls in SpecProc
MaxReset == 1         \* reset_state calls in SpecProc
MaxCalls == 4         \* processor calls in SpecProc, of any operation
MaxVars == 2          \* variables of one environment of one contribution
MaxFaults == 1        \* failing tasks or exports in one run of Spec
MaxAcquire == 2       \* upload_file calls in SpecCache
MaxEdits == 2         \* changes of the local files in SpecCache
MaxStarts == 1        \* process restarts in SpecCache

None == "None"                \* a missing string (dict key absent)
NoneObj == [none |-> TRUE]    \* Python None where an object is expected

(***************************************************************************)
(* Small helpers on sequences                                              *)
(***************************************************************************)
Range(s) == {s[i] : i \in DOMAIN s}

RECURSIVE SumSeq(_)
SumSeq(s) == IF s = <<>> THEN 0 ELSE Head(s) + SumSeq(Tail(s))

RECURSIVE FlattenSeq(_)
FlattenSeq(ss) == IF ss = <<>> THEN <<>> ELSE Head(ss) \o FlattenSeq(Tail(ss))

SeqsUpTo(S, n) == UNION {[1..k -> S] : k \in 0..n}

(***************************************************************************)
(* FileManager and FileRegistry (src/src/core/file_manager.py)             *)
(***************************************************************************)

\* What is at a local path: nothing, a directory, or a file with a content.
Missing == "missing"
Dir == "dir"
Contents == {"c1", "c2", "big"}
FileStates == {Missing, Dir} \cup Contents

\* Paths with their suffix (file_path.suffix.lower()).  The user edits the
\* two inputs a.pdf and b.pdf; the other paths stay as they are.
EditablePaths == {"a.pdf", "b.pdf"}
Paths == EditablePaths \cup {"x.exe", "huge.pdf", "dir.pdf"}
Suffix(path) ==
    CASE path = "a.pdf" -> ".pdf"
      [] path = "b.pdf" -> ".pdf"
      [] path = "x.exe" -> ".exe"
      [] path = "huge.pdf" -> ".pdf"
      [] path = "dir.pdf" -> ".pdf"

supported_file_types == {".yaml", ".yml", ".json", ".pdf"}
max_file_size_mb == 32

\* st_size of a content, in MB.
SizeMb(content) ==
    CASE content = "c1" -> 1
      [] content = "c2" -> 32
      [] content = "big" -> 33

\* _calculate_file_hash: SHA-256 of the bytes, taken as collision free.
calculate_file_hash(content) ==
    CASE content = "c1" -> "sha_c1"
      [] content = "c2" -> "sha_c2"
      [] content = "big" -> "sha_big"

\* As validate_file, but every path is accepted.
validate_nothing(disk, file_path) == None

\* _validate_file: the exception it raises, None when the file is accepted.
validate_file(disk, file_path) ==
    IF disk[file_path] = Missing THEN "FileNotFoundError"
    ELSE IF disk[file_path] = Dir THEN "ValueError: Path is not a file"
    ELSE IF SizeMb(disk[file_path]) > max_file_size_mb
         THEN "ValueError: File too large"
    ELSE IF Suffix(file_path) \notin supported_file_types
         THEN "ValueError: Unsupported file type"
    ELSE None

\* As get_file_by_hash, with a lookup that never finds the entry.
get_file_missed(reg, file_hash) == NoneObj

\* FileRegistry.files is a dict: a sequence of FileInfo with distinct hashes,
\* in insertion order.
get_file_by_hash(reg, file_hash) ==
    IF \E i \in DOMAIN reg : reg[i].file_hash = file_hash
    THEN reg[CHOOSE i \in DOMAIN reg : reg[i].file_hash = file_hash]
    ELSE NoneObj

\* The first entry, in insertion order, with the path.
get_file_by_path(reg, file_path) ==
    IF \E i \in DOMAIN reg : reg[i].file_path = file_path
    THEN reg[CHOOSE i \in DOMAIN reg :
                /\ reg[i].file_path = file_path
                /\ \A j \in 1..(i - 1) : reg[j].file_path # file_path]
    ELSE NoneObj

\* has_file_changed: False for a path that does not exist, True for a path
\* without an entry, else whether the current hash differs from the hash of
\* the entry get_file_by_path returns.
has_file_changed(reg, disk, file_path) ==
    IF disk[file_path] = Missing THEN FALSE
    ELSE LET cached_file == get_file_by_path(reg, file_path)
         IN IF cached_file = NoneObj THEN TRUE
            ELSE calculate_file_hash(disk[file_path]) # cached_file.file_hash

\* As add_file, but the entry is not stored.
add_file_dropped(reg, file_info) == reg

\* self.files[file_info.file_hash] = file_info
add_file(reg, file_info) ==
    IF \E i \in DOMAIN reg : reg[i].file_hash = file_info.file_hash
    THEN [i \in DOMAIN reg |->
            IF reg[i].file_hash = file_info.file_hash THEN file_info ELSE reg[i]]
    ELSE Append(reg, file_info)

remove_file(reg, file_hash) ==
    SelectSeq(reg, LAMBDA e : e.file_hash # file_hash)

\* As cleanup_missing_files, but nothing is removed.
cleanup_keeps_all(reg, disk) == reg

\* cleanup_missing_files: the entries whose file_path exists are kept
\* (Path.exists() is true for a directory too).
cleanup_missing_files(reg, disk) ==
    SelectSeq(reg, LAMBDA e : disk[e.file_path] # Missing)

\* _save_registry writes registry.dict() with default=str: a Path is written
\* as a string.  _load_registry parses the strings back into Path objects.
save_registry(reg) ==
    [i \in DOMAIN reg |-> [reg[i] EXCEPT !.file_path = [str |-> @]]]

load_registry(file) ==
    [i \in DOMAIN file |-> [file[i] EXCEPT !.file_path = @.str]]

FileInfo(file_id, file_path, content) ==
    [file_id |-> file_id, file_path |-> file_path,
     file_hash |-> calculate_file_hash(content),
     file_size |-> SizeMb(content)]

\* The local files before the first process starts.
InitialFiles ==
    [path \in Paths |->
        CASE path = "huge.pdf" -> "big"
          [] path = "dir.pdf" -> Dir
          [] OTHER -> "c1"]

\* history: n calls of upload_file were made, log holds those that returned,
\* raised is the exception of the last call that raised, last_path its path,
\* epoch counts the process starts, removals the prune passes that removed
\* an entry, edits the changes of local files, fresh the paths whose file
\* was not changed after the last upload_file call for them returned.
NoHistory == [log |-> <<>>, n |-> 0, last_path |-> None, raised |-> None,
              epoch |-> 0, removals |-> 0, edits |-> 0, fresh |-> {}]

\* The cache of a process that uploads nothing.
IdleCache ==
    /\ fs = InitialFiles /\ registry = <<>> /\ registry_file = <<>>
    /\ uploaded = <<>> /\ calls = {} /\ history = NoHistory

(***************************************************************************)
(* PostmanProcessor                                                        *)
(***************************************************************************)

\* Postman items of an LLM collection: a request, a sub-folder of items, or
\* an item with neither a "request" nor an "item" key.
Req == [type |-> "request"]
Other == [type |-> "other"]
Folder(items) == [type |-> "folder", item |-> items]

ItemLists == {<<>>, <<Req>>, <<Folder(<<Req, Req>>), Other>>}

RECURSIVE count_requests_in_items(_)
count_requests_in_items(items) ==
    IF items = <<>> THEN 0
    ELSE LET it == Head(items)
             c == IF it.type = "request" THEN 1
                  ELSE IF it.type = "folder"
                       THEN count_requests_in_items(it.item)
                       ELSE 0
         IN c + count_requests_in_items(Tail(items))

\* Collection names the LLM returns; None is a collection without "name".
CollectionNames == {"Pets API Collection", None}

\* _initialize_consolidated_collection: name.replace(" API Collection", "")
\* .replace(" Collection", ""), with "API Collection" as the default name.
ApiNameOf(name) ==
    CASE name = "Pets API Collection" -> "Pets"
      [] name = None -> "API"

\* What _create_readable_folder_name makes of the section names and section
\* ids of the model: a leading section_/api_/test_ is dropped, the rest is split on
\* "_" and "-", each word capitalized; nothing left gives "API Endpoints".
create_readable_folder_name(section_name) ==
    CASE section_name = "section_users" -> "Users"
      [] section_name = "orders-api" -> "Orders Api"
      [] section_name = "api_" -> "API Endpoints"
      [] section_name = "test_users" -> "Users"
      [] section_name = "Complete API" -> "Complete Api"
      [] section_name = "s1" -> "S1"
      [] section_name = "s2" -> "S2"
      [] section_name = "s3" -> "S3"
      [] section_name = "s4" -> "S4"
      [] section_name = "s5" -> "S5"

\* Environment variables: a variable is a dict with "key" and "value"; the
\* LLM output is not checked, so "key" may be missing.
Keys == {"k1", "k2"}
EnvVars == {[key |-> "k1", value |-> "X"], [key |-> "k1", value |-> "Y"],
            [key |-> "k2", value |-> "X"], [key |-> None, value |-> "X"]}
EnvValueLists == SeqsUpTo(EnvVars, MaxVars)
\* environments_data: a list of environments, of which only [0] is used.
EnvironmentsData == {<<>>} \cup {<<[values |-> v]>> : v \in EnvValueLists}

FreshProcessor ==
    [consolidated_collection |-> NoneObj,
     consolidated_environment |-> NoneObj,
     total_requests |-> 0,
     all_folders |-> <<>>,
     api_name |-> "API"]

\* The description a collection starts with carries no totals.
NoTotals == [total_requests |-> -1, areas |-> -1, first |-> <<>>]

initialize_consolidated_collection(P, first_collection) ==
    [P EXCEPT !.api_name = ApiNameOf(first_collection.name),
              !.consolidated_collection =
                  [name |-> ApiNameOf(first_collection.name),
                   description |-> NoTotals,
                   item |-> <<>>]]

\* As add_section_to_collection, but the folder is put in front.
add_section_in_front(P, section_collection, section_id, metadata) ==
    IF section_collection.item = <<>> THEN P
    ELSE LET section_name == IF metadata.section_name = None THEN section_id
                             ELSE metadata.section_name
             folder == [name |-> create_readable_folder_name(section_name),
                        item |-> section_collection.item]
         IN [P EXCEPT !.consolidated_collection.item = <<folder>> \o @,
                      !.total_requests =
                          @ + count_requests_in_items(section_collection.item),
                      !.all_folders = <<folder.name>> \o @]

\* As add_section_to_collection, without the return on an empty item list.
add_section_unchecked(P, section_collection, section_id, metadata) ==
    LET section_name == IF metadata.section_name = None THEN section_id
                        ELSE metadata.section_name
        folder == [name |-> create_readable_folder_name(section_name),
                   item |-> section_collection.item]
    IN [P EXCEPT !.consolidated_collection.item = Append(@, folder),
                 !.total_requests =
                     @ + count_requests_in_items(section_collection.item),
                 !.all_folders = Append(@, folder.name)]

\* As add_section_to_collection, but the metrics are not tracked.
add_section_untracked(P, section_collection, section_id, metadata) ==
    IF section_collection.item = <<>> THEN P
    ELSE LET section_name == IF metadata.section_name = None THEN section_id
                             ELSE metadata.section_name
             folder == [name |-> create_readable_folder_name(section_name),
                        item |-> section_collection.item]
         IN [P EXCEPT !.consolidated_collection.item = Append(@, folder)]

add_section_to_collection(P, section_collection, section_id, metadata) ==
    IF section_collection.item = <<>> THEN P
    ELSE LET section_name == IF metadata.section_name = None THEN section_id
                             ELSE metadata.section_name
             folder == [name |-> create_readable_folder_name(section_name),
                        item |-> section_collection.item]
         IN [P EXCEPT !.consolidated_collection.item = Append(@, folder),
                      !.total_requests =
                          @ + count_requests_in_items(section_collection.item),
                      !.all_folders = Append(@, folder.name)]

\* The loop of _merge_environment_variables over new_values from position i:
\* existing_keys was computed once, before the loop.  A variable without
\* "key" raises KeyError; what was appended before it stays.
RECURSIVE MergeLoop(_, _, _)
MergeLoop(values, new_values, existing_keys) ==
    IF new_values = <<>> THEN [values |-> values, raised |-> FALSE]
    ELSE LET v == Head(new_values)
         IN IF v.key = None THEN [values |-> values, raised |-> TRUE]
            ELSE MergeLoop(IF v.key \notin existing_keys
                           THEN Append(values, v) ELSE values,
                           Tail(new_values), existing_keys)

\* As merge_environment_variables, but a key that exists takes the new value.
merge_last_write_wins(P, new_env_data) ==
    LET env == P.consolidated_environment
        RECURSIVE Overwrite(_, _, _)
        Overwrite(values, new_values, existing_keys) ==
            IF new_values = <<>> THEN [values |-> values, raised |-> FALSE]
            ELSE LET v == Head(new_values)
                 IN IF v.key = None THEN [values |-> values, raised |-> TRUE]
                    ELSE Overwrite(
                             IF v.key \notin existing_keys THEN Append(values, v)
                             ELSE [i \in DOMAIN values |->
                                     IF values[i].key = v.key THEN v ELSE values[i]],
                             Tail(new_values), existing_keys)
    IN IF env = NoneObj
       THEN [P |-> P, raised |-> FALSE]
       ELSE IF \E i \in DOMAIN env.values : env.values[i].key = None
            THEN [P |-> P, raised |-> TRUE]
            ELSE LET r == Overwrite(env.values, new_env_data.values,
                                    {env.values[i].key : i \in DOMAIN env.values})
                 IN [P |-> [P EXCEPT !.consolidated_environment.values = r.values],
                     raised |-> r.raised]

\* An environment dict is falsy only when it is empty; the environments of
\* EnvironmentsData always carry "values", so `not env` is `env is None`.
merge_environment_variables(P, new_env_data) ==
    LET env == P.consolidated_environment
    IN IF env = NoneObj
       THEN [P |-> P, raised |-> FALSE]
       ELSE IF \E i \in DOMAIN env.values : env.values[i].key = None
            THEN [P |-> P, raised |-> TRUE]
            ELSE LET r == MergeLoop(env.values, new_env_data.values,
                                    {env.values[i].key : i \in DOMAIN env.values})
                 IN [P |-> [P EXCEPT !.consolidated_environment.values = r.values],
                     raised |-> r.raised]

\* generate_collection_files: the state it leaves and whether it raised.
generate_collection_files(P, collection_data, environments_data, section_id, metadata) ==
    LET P1 == IF P.consolidated_collection = NoneObj
              THEN initialize_consolidated_collection(P, collection_data)
              ELSE P
        P2 == add_section_to_collection(P1, collection_data, section_id, metadata)
    IN IF environments_data # <<>> /\ P2.consolidated_environment = NoneObj
       THEN [P |-> [P2 EXCEPT !.consolidated_environment = environments_data[1]],
             raised |-> FALSE]
       ELSE IF environments_data # <<>>
            THEN merge_environment_variables(P2, environments_data[1])
            ELSE [P |-> P2, raised |-> FALSE]

\* As reset_state, leaving the totals and the api name as they are.
reset_keeps_totals(P) ==
    [P EXCEPT !.consolidated_collection = NoneObj,
              !.consolidated_environment = NoneObj]

reset_state(P) == FreshProcessor

\* File names.  A base name is <pre><mid><post>; the environment and the
\* guide are named by base_name.replace("_collection_", ...), which changes
\* nothing when the base name does not contain "_collection_".
Timestamps == {"t1", "t2"}
BaseNames == {NoneObj, [pre |-> "api", mid |-> "_collection_", post |-> "t1"],
              [pre |-> "bundle", mid |-> "", post |-> ""]}

\* _create_clean_filename on the api names of ApiNameOf.
create_clean_filename(name) ==
    CASE name = "Pets" -> "pets"
      [] name = "API" -> "api"

ReplaceMid(base, with) ==
    IF base.mid = "_collection_" THEN [base EXCEPT !.mid = with] ELSE base

CollectionPath(base) == [stem |-> base, ext |-> "json"]
EnvironmentPath(base) == [stem |-> ReplaceMid(base, "_environment_"), ext |-> "json"]
DocumentationPath(base) == [stem |-> ReplaceMid(base, "_guide_"), ext |-> "md"]

\* _finalize_collection_metadata: the description is rebuilt from the totals.
finalize_collection_metadata(P) ==
    [P EXCEPT !.consolidated_collection =
        [name |-> P.consolidated_collection.name,
         item |-> P.consolidated_collection.item,
         description |-> [total_requests |-> P.total_requests,
                          areas |-> Len(P.all_folders),
                          first |-> SubSeq(P.all_folders, 1,
                                       IF Len(P.all_folders) > 3 THEN 3
                                       ELSE Len(P.all_folders))]]]

\* As ExportPlan, with the guide generated whatever generate_docs says.
ExportPlanWithGuide(P, base, generate_docs) ==
    <<[key |-> "collection", path |-> CollectionPath(base),
       content |-> [kind |-> "collection", data |-> P.consolidated_collection]]>>
    \o (IF P.consolidated_environment # NoneObj
        THEN <<[key |-> "environment", path |-> EnvironmentPath(base),
                content |-> [kind |-> "environment",
                             data |-> P.consolidated_environment.values]]>>
        ELSE <<>>)
    \o <<[key |-> "documentation", path |-> DocumentationPath(base),
          content |-> [kind |-> "documentation", data |-> P.all_folders]]>>

\* The files finalize_and_export_collection writes, in order, as
\* <<key of output_paths, path, content>>.
ExportPlan(P, base, generate_docs) ==
    <<[key |-> "collection", path |-> CollectionPath(base),
       content |-> [kind |-> "collection", data |-> P.consolidated_collection]]>>
    \o (IF P.consolidated_environment # NoneObj
        THEN <<[key |-> "environment", path |-> EnvironmentPath(base),
                content |-> [kind |-> "environment",
                             data |-> P.consolidated_environment.values]]>>
        ELSE <<>>)
    \o (IF generate_docs
        THEN <<[key |-> "documentation", path |-> DocumentationPath(base),
                content |-> [kind |-> "documentation",
                             data |-> P.all_folders]]>>
        ELSE <<>>)

\* As finalize_and_export_collection with the None check inverted.
finalize_refuses_collection(P, base_name, generate_docs, ts, failAt) ==
    [P |-> P, written |-> <<>>, output_paths |-> {},
     raised |-> "ValueError: No collection data to export"]

\* finalize_and_export_collection(base_name, generate_docs).  ts is the clock
\* read for the default base name; failAt is the export that raises (0: none).
\* Gives the processor, the writes performed, output_paths and the exception.
finalize_and_export_collection(P, base_name, generate_docs, ts, failAt) ==
    IF P.consolidated_collection = NoneObj
    THEN [P |-> P, written |-> <<>>, output_paths |-> {},
          raised |-> "ValueError: No collection data to export"]
    ELSE LET base == IF base_name = NoneObj
                     THEN [pre |-> create_clean_filename(P.api_name),
                           mid |-> "_collection_", post |-> ts]
                     ELSE base_name
             P1 == finalize_collection_metadata(P)
             plan == ExportPlan(P1, base, generate_docs)
         IN IF failAt \in DOMAIN plan
            THEN [P |-> P1, written |-> SubSeq(plan, 1, failAt - 1),
                  output_paths |-> {}, raised |-> "OSError"]
            ELSE [P |-> P1, written |-> plan,
                  output_paths |-> {plan[i].key : i \in DOMAIN plan},
                  raised |-> None]

RECURSIVE WriteAll(_, _)
WriteAll(f, written) ==
    IF written = <<>> THEN f
    ELSE WriteAll((Head(written).path :> Head(written).content) @@ f,
                  Tail(written))

(***************************************************************************)
(* SpecProc: one PostmanProcessor, its public operations in any order      *)
(***************************************************************************)

\* Callers' arguments.  PostmanAgent.process_llm_output always passes the
\* section name in the metadata; a direct caller may leave it out.
ProcSections == {[section_id |-> "s1", section_name |-> "section_users"],
                 [section_id |-> "s2", section_name |-> None]}

IdleRun ==
    /\ cfg = NoneObj /\ pc = "processor" /\ cursor = NoneObj
    /\ inflight = {} /\ done = <<>> /\ results = NoneObj
    /\ faults = 0 /\ contributed = <<>> /\ report = NoneObj

\* conflict: the contribution carried a key that was already merged with
\* another value.
NoCall == [n |-> 0, op |-> "init", raised |-> None, conflict |-> FALSE,
           contribs |-> 0, finals |-> 0, resets |-> 0]

HasKey(P, k) ==
    /\ P.consolidated_environment # NoneObj
    /\ \E i \in DOMAIN P.consolidated_environment.values :
          P.consolidated_environment.values[i].key = k

\* The values the merged environment holds for key k.
MergedValues(P, k) ==
    IF P.consolidated_environment = NoneObj THEN {}
    ELSE {P.consolidated_environment.values[i].value :
            i \in {j \in DOMAIN P.consolidated_environment.values :
                     P.consolidated_environment.values[j].key = k}}

Conflicts(P, envs) ==
    /\ envs # <<>>
    /\ \E i \in DOMAIN envs[1].values :
          /\ envs[1].values[i].key # None
          /\ HasKey(P, envs[1].values[i].key)
          /\ envs[1].values[i].value \notin MergedValues(P, envs[1].values[i].key)

\* What one processor call leaves in `last`.
Called(op, raised, conflict) ==
    [n |-> last.n + 1, op |-> op, raised |-> raised, conflict |-> conflict,
     contribs |-> last.contribs + (IF op = "contribute" THEN 1 ELSE 0),
     finals |-> last.finals + (IF op = "finalize" THEN 1 ELSE 0),
     resets |-> last.resets + (IF op = "reset" THEN 1 ELSE 0)]

InitProc ==
    /\ processor = FreshProcessor
    /\ files = <<>>
    /\ writes = 0
    /\ last = NoCall
    /\ finalized = 0
    /\ IdleRun
    /\ IdleCache

ProcContribute(name, items, envs, sec) ==
    /\ last.n < MaxCalls /\ last.contribs < MaxContrib
    /\ LET r == generate_collection_files(processor,
                     [name |-> name, item |-> items], envs, sec.section_id,
                     [section_name |-> sec.section_name])
       IN /\ processor' = r.P
          /\ last' = Called("contribute",
                             IF r.raised THEN "KeyError" ELSE None,
                             Conflicts(processor, envs))
    /\ UNCHANGED <<files, writes, finalized, runVars, cacheVars>>

ProcFinalize(base_name, generate_docs, ts, failAt) ==
    /\ last.n < MaxCalls /\ last.finals < MaxFinalize
    /\ LET r == finalize_and_export_collection(processor, base_name,
                                               generate_docs, ts, failAt)
       IN /\ processor' = r.P
          /\ files' = WriteAll(files, r.written)
          /\ writes' = writes + Len(r.written)
          /\ finalized' = IF r.raised = None THEN finalized + 1 ELSE finalized
          /\ last' = Called("finalize", r.raised, FALSE)
    /\ UNCHANGED <<runVars, cacheVars>>

ProcReset ==
    /\ last.n < MaxCalls /\ last.resets < MaxReset
    /\ processor' = reset_state(processor)
    /\ finalized' = 0
    /\ last' = Called("reset", None, FALSE)
    /\ UNCHANGED <<files, writes, runVars, cacheVars>>

\* The lifecycle specification contributes few environments; SpecMerge
\* contributes all of EnvironmentsData.
LifecycleEnvs == {<<>>, <<[values |-> <<[key |-> "k1", value |-> "X"]>>]>>}

NextProc ==
    \/ \E name \in CollectionNames, items \in ItemLists,
          envs \in LifecycleEnvs, sec \in ProcSections :
          ProcContribute(name, items, envs, sec)
    \/ \E base_name \in BaseNames, generate_docs \in BOOLEAN,
          ts \in Timestamps, failAt \in 0..3 :
          /\ base_name # NoneObj => ts = "t1"
          /\ ProcFinalize(base_name, generate_docs, ts, failAt)
    \/ ProcReset

SpecProc == InitProc /\ [][NextProc]_vars

(***************************************************************************)
(* Generator agents                                                        *)
(***************************************************************************)

\* The plan: section i of the run.  Section names repeat after four.
PlanNames == <<"section_users", "orders-api", "api_", "test_users">>

\* The single section of _create_fallback_analysis.
fallback_section ==
    [index |-> 1, section_id |-> "fallback_001", name |-> "Complete API"]

PlanSection(i) ==
    IF cfg.analysis = "fallback" THEN fallback_section
    ELSE [index |-> i,
          section_id |-> <<"s1", "s2", "s3", "s4", "s5">>[i],
          name |-> PlanNames[((i - 1) % 4) + 1]]

\* Token usage the LLM service reports for one call; total_tokens is the
\* sum the API returns.
Usages == {[input_tokens |-> 1, output_tokens |-> 1, total_tokens |-> 2],
           [input_tokens |-> 2, output_tokens |-> 1, total_tokens |-> 3]}

PostmanUsages == {[input_tokens |-> 3, output_tokens |-> 2, total_tokens |-> 5]}

NoUsage == [input_tokens |-> 0, output_tokens |-> 0, total_tokens |-> 0]

\* AgentOutput and its subclasses; type is the Python class of the object.
AgentOutput(type, agent_type, section_id, success, errors, warnings) ==
    [type |-> type, agent_type |-> agent_type, section_id |-> section_id,
     success |-> success, errors |-> errors, warnings |-> warnings,
     token_usage |-> NoUsage, artifacts |-> {}, finalized |-> FALSE]

\* What the collaborators of one execute call do.
\*   raise   an exception leaves execute (it is raised outside its try)
\*   error   generate_structured_response raises
\*   ok      the LLM answers; usage is what it reports.  For the CSV agent
\*           process_ok tells whether the CSV export worked; for the Postman
\*           agent collection/environments are the LLM output.
CsvResponses ==
    {[type |-> "raise"], [type |-> "error"]}
    \cup [type : {"ok"}, usage : Usages, process_ok : BOOLEAN]

RunCollections == [name : {"Pets API Collection"}, item : {<<>>, <<Req>>}]
PostmanResponses ==
    {[type |-> "raise"], [type |-> "error"]}
    \cup [type : {"ok"}, usage : PostmanUsages, collection : RunCollections,
          environments : LifecycleEnvs]

IsFault(resp) ==
    \/ resp.type \in {"raise", "error"}
    \/ "process_ok" \in DOMAIN resp /\ ~resp.process_ok

\* CsvAgent.process_llm_output
csv_process_llm_output(resp, sec) ==
    IF resp.process_ok
    THEN [AgentOutput("CsvOutput", "csv", sec.section_id, TRUE, <<>>, <<>>)
             EXCEPT !.artifacts = {"csv_file"}]
    ELSE AgentOutput("CsvOutput", "csv", sec.section_id, FALSE,
                     <<"CSV processing failed">>, <<>>)

\* PostmanAgent.process_llm_output: the output and the processor it leaves.
postman_process_llm_output(P, resp, sec) ==
    LET r == generate_collection_files(P, resp.collection, resp.environments,
                 sec.section_id, [section_name |-> sec.name])
    IN [P |-> r.P,
        out |-> IF r.raised
                THEN AgentOutput("PostmanOutput", "postman", sec.section_id,
                         FALSE, <<"Postman collection generation failed">>, <<>>)
                ELSE AgentOutput("PostmanOutput", "postman", sec.section_id,
                         TRUE, <<>>, <<>>)]

\* BaseAgent.execute after process_llm_output returned: the metrics are
\* filled in and success is set.
complete_output(agent_output, usage) ==
    [agent_output EXCEPT !.token_usage = usage, !.success = TRUE]

\* BaseAgent.execute, except branch.
error_output(agent_type, sec) ==
    AgentOutput("AgentOutput", agent_type, sec.section_id, FALSE,
                <<"API Error">>, <<>>)

\* BaseAgent.execute for the CSV and the Postman agent: what the await
\* returns (or that it raised) and the processor it leaves.
execute(agent_type, P, resp, sec) ==
    IF resp.type = "raise" THEN [raised |-> TRUE, P |-> P]
    ELSE IF resp.type = "error"
    THEN [raised |-> FALSE, P |-> P, out |-> error_output(agent_type, sec)]
    ELSE IF agent_type = "csv"
    THEN [raised |-> FALSE, P |-> P,
          out |-> complete_output(csv_process_llm_output(resp, sec), resp.usage)]
    ELSE LET r == postman_process_llm_output(P, resp, sec)
         IN [raised |-> FALSE, P |-> r.P,
             out |-> complete_output(r.out, resp.usage)]

\* MockAgent.execute for the Karate kind.
mock_execute(sec) ==
    [AgentOutput("KarateOutput", "karate", sec.section_id, TRUE, <<>>,
                 <<"This is a mock Karate agent - no actual files generated">>)
        EXCEPT !.artifacts = {"feature_file"}]

(***************************************************************************)
(* ResultCompiler                                                          *)
(***************************************************************************)
RECURSIVE SelectByType(_, _)
SelectByType(outs, type) ==
    IF outs = <<>> THEN <<>>
    ELSE (IF Head(outs).type = type THEN <<Head(outs)>> ELSE <<>>)
         \o SelectByType(Tail(outs), type)

extract_csv_outputs(csv_results) == SelectByType(csv_results, "CsvOutput")

extract_postman_outputs(postman_results) ==
    SelectByType(postman_results, "PostmanOutput")

\* A base AgentOutput of the karate kind is rebuilt as a KarateOutput, without
\* its metrics.
RECURSIVE extract_karate_outputs(_)
extract_karate_outputs(karate_results) ==
    IF karate_results = <<>> THEN <<>>
    ELSE LET r == Head(karate_results)
         IN (IF r.type = "KarateOutput" THEN <<r>>
             ELSE IF r.agent_type = "karate"
                  THEN <<[r EXCEPT !.type = "KarateOutput",
                                   !.token_usage = NoUsage]>>
                  ELSE <<>>)
            \o extract_karate_outputs(Tail(karate_results))

TokenSum(outs, field) ==
    SumSeq([i \in DOMAIN outs |-> outs[i].token_usage[field]])

\* As calculate_total_token_usage, counting successful outputs only.
TokenUsageOfSuccessful(csv_outputs, karate_outputs, postman_outputs) ==
    LET all == SelectSeq(csv_outputs \o karate_outputs \o postman_outputs,
                         LAMBDA o : o.success)
        total_input == TokenSum(all, "input_tokens")
        total_output == TokenSum(all, "output_tokens")
    IN [input_tokens |-> total_input, output_tokens |-> total_output,
        total_tokens |-> total_input + total_output]

calculate_total_token_usage(csv_outputs, karate_outputs, postman_outputs) ==
    LET all == csv_outputs \o karate_outputs \o postman_outputs
        total_input == TokenSum(all, "input_tokens")
        total_output == TokenSum(all, "output_tokens")
    IN [input_tokens |-> total_input, output_tokens |-> total_output,
        total_tokens |-> total_input + total_output]

collect_errors_and_warnings(csv_outputs, karate_outputs, postman_outputs) ==
    LET all == csv_outputs \o karate_outputs \o postman_outputs
    IN [errors |-> FlattenSeq([i \in DOMAIN all |-> all[i].errors]),
        warnings |-> FlattenSeq([i \in DOMAIN all |-> all[i].warnings])]

\* As overall_success, without the test on the collected errors.
success_ignores_errors(errors, csv_outputs, karate_outputs, postman_outputs) ==
    \/ csv_outputs # <<>>
    \/ karate_outputs # <<>>
    \/ postman_outputs # <<>>

\* success = len(errors) == 0 and any([csv_outputs, karate_outputs,
\* postman_outputs])
overall_success(errors, csv_outputs, karate_outputs, postman_outputs) ==
    /\ errors = <<>>
    /\ \/ csv_outputs # <<>>
       \/ karate_outputs # <<>>
       \/ postman_outputs # <<>>

compile_result(agent_results, total_sections) ==
    LET csv_outputs == extract_csv_outputs(agent_results.csv)
        karate_outputs == extract_karate_outputs(agent_results.karate)
        postman_outputs == extract_postman_outputs(agent_results.postman)
        ew == collect_errors_and_warnings(csv_outputs, karate_outputs,
                                          postman_outputs)
        success == overall_success(ew.errors, csv_outputs, karate_outputs,
                                   postman_outputs)
    IN [kind |-> "compiled",
        success |-> success,
        status |-> IF success THEN "completed" ELSE "failed",
        total_sections |-> total_sections,
        sections_processed |->
            Len(SelectSeq(csv_outputs \o karate_outputs \o postman_outputs,
                          LAMBDA o : o.success)),
        csv_outputs |-> csv_outputs,
        karate_outputs |-> karate_outputs,
        postman_outputs |-> postman_outputs,
        total_token_usage |->
            calculate_total_token_usage(csv_outputs, karate_outputs,
                                        postman_outputs),
        errors |-> ew.errors,
        warnings |-> ew.warnings]

\* As create_error_result, reporting the aborted run as completed.
error_result_completed(error) ==
    [kind |-> "error",
     success |-> TRUE,
     status |-> "completed",
     total_sections |-> 0,
     sections_processed |-> 0,
     csv_outputs |-> <<>>,
     karate_outputs |-> <<>>,
     postman_outputs |-> <<>>,
     total_token_usage |-> NoUsage,
     errors |-> <<>>,
     warnings |-> <<>>]

create_error_result(error) ==
    [kind |-> "error",
     success |-> FALSE,
     status |-> "failed",
     total_sections |-> 0,
     sections_processed |-> 0,
     csv_outputs |-> <<>>,
     karate_outputs |-> <<>>,
     postman_outputs |-> <<>>,
     total_token_usage |-> NoUsage,
     errors |-> <<error>>,
     warnings |-> <<>>]

(***************************************************************************)
(* TestOrchestrator.execute                                                *)
(***************************************************************************)
max_concurrent_agents == 3

\* AgentFactory.create_postman_agent returns the MockAgent; a factory that
\* resolves the registered PostmanAgent returns an agent with a processor.
PostmanAgentClasses == {"MockAgent", "PostmanAgent"}

Configs ==
    {c \in [generate_csv : BOOLEAN, generate_karate : BOOLEAN,
            generate_postman : BOOLEAN, parallel_processing : BOOLEAN,
            generate_postman_docs : BOOLEAN,
            total_sections : 0..MaxSections,
            analysis : {"pending"},
            postman_agent : PostmanAgentClasses] :
        ~c.generate_postman =>
            (c.generate_postman_docs /\ c.postman_agent = "MockAgent")}

Task(kind, i) == [kind |-> kind, sec |-> i]

\* As SequentialTasks, kind by kind: every section's CSV task, then every
\* section's Karate task, then every section's Postman task.
SequentialTasksKindMajor(c) ==
    (IF c.generate_csv
     THEN [i \in 1..c.total_sections |-> Task("csv", i)] ELSE <<>>)
    \o (IF c.generate_karate
        THEN [i \in 1..c.total_sections |-> Task("karate", i)] ELSE <<>>)
    \o (IF c.generate_postman
        THEN [i \in 1..c.total_sections |-> Task("postman", i)] ELSE <<>>)

\* The awaits of _execute_agents_sequential_with_shared, in order.
SequentialTasks(c) ==
    FlattenSeq([i \in 1..c.total_sections |->
        (IF c.generate_csv THEN <<Task("csv", i)>> ELSE <<>>)
        \o (IF c.generate_karate THEN <<Task("karate", i)>> ELSE <<>>)
        \o (IF c.generate_postman THEN <<Task("postman", i)>> ELSE <<>>)])

\* The tasks list of _execute_agents_parallel, which batches all three kinds.
ParallelTasksAllKinds(c) == SequentialTasks(c)

\* The tasks list of _execute_agents_parallel_with_shared.
ParallelTasks(c) ==
    FlattenSeq([i \in 1..c.total_sections |->
        (IF c.generate_csv THEN <<Task("csv", i)>> ELSE <<>>)
        \o (IF c.generate_karate THEN <<Task("karate", i)>> ELSE <<>>)])

\* The Postman loop that follows the batches in parallel mode.
PostmanLoopTasks(c) ==
    IF c.generate_postman
    THEN [i \in 1..c.total_sections |-> Task("postman", i)]
    ELSE <<>>

SerialTasks == IF pc = "sequential" THEN SequentialTasks(cfg)
               ELSE PostmanLoopTasks(cfg)

\* As Batch, without the batch size: every task from i on.
BatchUnbounded(tasks, i) == SubSeq(tasks, i, Len(tasks))

\* batch = tasks[i:i + batch_size], positions counted from 1.
Batch(tasks, i) ==
    SubSeq(tasks, i, IF i + max_concurrent_agents - 1 > Len(tasks)
                     THEN Len(tasks) ELSE i + max_concurrent_agents - 1)

Responses(kind) ==
    CASE kind = "csv" -> CsvResponses
      [] kind = "postman" -> PostmanResponses
      [] kind = "karate" -> {[type |-> "mock"]}

\* agent.execute(agent_input) for a task of the run.
run_task(task, P, resp) ==
    IF task.kind = "karate"
    THEN [raised |-> FALSE, P |-> P, out |-> mock_execute(PlanSection(task.sec))]
    ELSE execute(task.kind, P, resp, PlanSection(task.sec))

Contributes(task, resp) == task.kind = "postman" /\ resp.type = "ok"

InitRun ==
    /\ processor = FreshProcessor
    /\ files = <<>>
    /\ writes = 0
    /\ last = NoCall
    /\ finalized = 0
    /\ cfg \in Configs
    /\ pc = "upload"
    /\ cursor = [i |-> 1, started |-> FALSE]
    /\ inflight = {}
    /\ done = <<>>
    /\ results = [csv |-> <<>>, karate |-> <<>>, postman |-> <<>>]
    /\ faults = 0
    /\ contributed = <<>>
    /\ report = NoneObj
    /\ IdleCache

\* execute's except branch: the run returns the error result.
Abort(error) ==
    /\ report' = create_error_result(error)
    /\ pc' = "done"
    /\ inflight' = {}

\* Phase 1: the input files are read and uploaded; a failure leaves execute
\* through its except branch.
UploadInputFiles ==
    /\ pc = "upload"
    /\ \/ /\ pc' = "analyze"
          /\ UNCHANGED <<faults, report, inflight>>
       \/ /\ faults < MaxFaults
          /\ faults' = faults + 1
          /\ Abort("upload failed")
    /\ UNCHANGED <<procVars, cacheVars, cfg, cursor, done, results, contributed>>

\* Phase 2: analyze_and_section returns the sections the LLM found
\* (cfg.total_sections of them) or, when anything in it raises, the fallback
\* analysis of one section; it never raises.
AnalyzeAndSection ==
    /\ pc = "analyze"
    /\ \/ /\ cfg' = [cfg EXCEPT !.analysis = "llm"]
          /\ UNCHANGED faults
       \/ /\ faults < MaxFaults
          /\ faults' = faults + 1
          /\ cfg' = [cfg EXCEPT !.analysis = "fallback", !.total_sections = 1]
    /\ pc' = "setup"
    /\ UNCHANGED <<procVars, cacheVars, cursor, inflight, done, results,
                   contributed, report>>

\* Where _execute_agents_for_sections goes once the loop at pc is over.
AfterLoop(at) ==
    IF at = "parallel" /\ PostmanLoopTasks(cfg) # <<>> THEN "postman"
    ELSE "finalize"

EnterLoop(at, tasks) == IF tasks = <<>> THEN AfterLoop(at) ELSE at

\* _execute_agents_for_sections up to the first await: the shared Postman
\* agent is created and its processor reset.  The MockAgent has no
\* postman_processor attribute.
CreateSharedAgent ==
    /\ pc = "setup"
    /\ IF cfg.generate_postman /\ cfg.postman_agent = "MockAgent"
       THEN /\ Abort("AttributeError: postman_processor")
            /\ UNCHANGED <<procVars, cursor>>
       ELSE /\ IF cfg.generate_postman
               THEN /\ processor' = reset_state(processor)
                    /\ last' = Called("reset", None, FALSE)
                    /\ finalized' = 0
               ELSE UNCHANGED <<processor, last, finalized>>
            /\ pc' = IF cfg.parallel_processing
                     THEN EnterLoop("parallel", ParallelTasks(cfg))
                     ELSE EnterLoop("sequential", SequentialTasks(cfg))
            /\ cursor' = [i |-> 1, started |-> FALSE]
            /\ UNCHANGED <<files, writes, report, inflight>>
    /\ UNCHANGED <<cacheVars, cfg, done, results, faults, contributed>>

\* An await of agent.execute begins: sequential mode, or the Postman loop
\* of parallel mode.
SerialStart ==
    /\ pc \in {"sequential", "postman"}
    /\ ~cursor.started
    /\ inflight' = {SerialTasks[cursor.i]}
    /\ cursor' = [cursor EXCEPT !.started = TRUE]
    /\ UNCHANGED <<procVars, cacheVars, cfg, pc, done, results, faults, contributed, report>>

\* The processor call a Postman task makes, as left in `last`.
NoteContribution(task, resp, r) ==
    IF Contributes(task, resp)
    THEN /\ last' = Called("contribute",
                  IF r.out.errors # <<>> THEN "KeyError" ELSE None,
                  Conflicts(processor, resp.environments))
         /\ contributed' = IF resp.collection.item # <<>>
                           THEN Append(contributed, task.sec)
                           ELSE contributed
    ELSE UNCHANGED <<last, contributed>>

\* The awaited execute returns and its output is appended, or it raises and
\* the exception leaves _execute_agents_for_sections.
SerialReturn(resp) ==
    /\ pc \in {"sequential", "postman"}
    /\ cursor.started
    /\ LET task == SerialTasks[cursor.i]
           r == run_task(task, processor, resp)
       IN /\ resp \in Responses(task.kind)
          /\ IsFault(resp) => faults < MaxFaults
          /\ faults' = IF IsFault(resp) THEN faults + 1 ELSE faults
          /\ processor' = r.P
          /\ NoteContribution(task, resp, r)
          /\ IF r.raised
             THEN /\ Abort("task raised")
                  /\ UNCHANGED <<cursor, results>>
             ELSE /\ results' = [results EXCEPT ![task.kind] = Append(@, r.out)]
                  /\ cursor' = [i |-> cursor.i + 1, started |-> FALSE]
                  /\ inflight' = {}
                  /\ pc' = IF cursor.i + 1 > Len(SerialTasks)
                           THEN AfterLoop(pc) ELSE pc
                  /\ UNCHANGED report
    /\ UNCHANGED <<cacheVars, files, writes, finalized, cfg, done>>

\* asyncio.gather starts every task of the batch.
BatchStart ==
    /\ pc = "parallel"
    /\ ~cursor.started
    /\ LET batch == Batch(ParallelTasks(cfg), cursor.i)
       IN /\ inflight' = Range(batch)
          /\ done' = [j \in DOMAIN batch |-> NoneObj]
    /\ cursor' = [cursor EXCEPT !.started = TRUE]
    /\ UNCHANGED <<procVars, cacheVars, cfg, pc, results, faults, contributed, report>>

\* One task of the batch returns or raises; gather keeps what it gave.
BatchTaskReturn(j, resp) ==
    /\ pc = "parallel"
    /\ cursor.started
    /\ j \in DOMAIN done
    /\ LET task == Batch(ParallelTasks(cfg), cursor.i)[j]
           r == run_task(task, processor, resp)
       IN /\ task \in inflight
          /\ resp \in Responses(task.kind)
          /\ IsFault(resp) => faults < MaxFaults
          /\ faults' = IF IsFault(resp) THEN faults + 1 ELSE faults
          /\ inflight' = inflight \ {task}
          /\ done' = [done EXCEPT ![j] = IF r.raised THEN [exception |-> TRUE]
                                         ELSE r.out]
    /\ UNCHANGED <<procVars, cacheVars, cfg, pc, cursor, results, contributed, report>>

\* The results of gather, in task order: an exception is logged, an output
\* is appended to the list of its kind.
RECURSIVE AppendBatchResults(_, _, _)
AppendBatchResults(res, batch, batch_results) ==
    IF batch = <<>> THEN res
    ELSE AppendBatchResults(
             IF "exception" \in DOMAIN Head(batch_results) THEN res
             ELSE [res EXCEPT ![Head(batch).kind] = Append(@, Head(batch_results))],
             Tail(batch), Tail(batch_results))

BatchJoin ==
    /\ pc = "parallel"
    /\ cursor.started
    /\ inflight = {}
    /\ results' = AppendBatchResults(results,
                       Batch(ParallelTasks(cfg), cursor.i), done)
    /\ done' = <<>>
    /\ cursor' = [i |-> IF cursor.i + max_concurrent_agents > Len(ParallelTasks(cfg))
                        THEN 1 ELSE cursor.i + max_concurrent_agents,
                  started |-> FALSE]
    /\ pc' = IF cursor.i + max_concurrent_agents > Len(ParallelTasks(cfg))
             THEN AfterLoop("parallel") ELSE pc
    /\ UNCHANGED <<procVars, cacheVars, cfg, inflight, faults, contributed, report>>

\* _finalize_postman_collection on results["postman"]: what it leaves in
\* the outputs given what finalize_and_export_collection returned (r).
\* Setting collection_file on an output that is not a PostmanOutput raises
\* inside the try block: the outputs before it are updated, and then every
\* output is marked failed.
FirstNotPostman(outs) ==
    IF \E i \in DOMAIN outs : outs[i].type # "PostmanOutput"
    THEN CHOOSE i \in DOMAIN outs :
            /\ outs[i].type # "PostmanOutput"
            /\ \A j \in 1..(i - 1) : outs[j].type = "PostmanOutput"
    ELSE 0

MarkFailed(outs) ==
    [i \in DOMAIN outs |->
        [outs[i] EXCEPT !.success = FALSE,
                        !.errors = Append(@, "Collection finalization failed")]]

finalize_postman_outputs(outs, r) ==
    IF r.raised # None THEN MarkFailed(outs)
    ELSE LET bad == FirstNotPostman(outs)
             upd == [i \in DOMAIN outs |->
                       IF bad = 0 \/ i < bad
                       THEN [outs[i] EXCEPT !.artifacts = r.output_paths,
                                            !.finalized = TRUE]
                       ELSE IF i = bad
                            THEN [outs[i] EXCEPT !.artifacts = r.output_paths]
                            ELSE outs[i]]
         IN IF bad = 0 THEN upd ELSE MarkFailed(upd)

ExportCount(P, generate_docs) ==
    IF P.consolidated_collection = NoneObj THEN 0
    ELSE Len(ExportPlan(P, [pre |-> "api", mid |-> "_collection_", post |-> "t1"],
                        generate_docs))

\* POSTMAN FINALIZATION, after every section was processed.
FinalizePostmanCollection(ts, failAt) ==
    /\ pc = "finalize"
    /\ cfg.generate_postman /\ results.postman # <<>>
    /\ failAt <= ExportCount(processor, cfg.generate_postman_docs)
    /\ failAt > 0 => faults < MaxFaults
    /\ faults' = IF failAt > 0 THEN faults + 1 ELSE faults
    /\ LET r == finalize_and_export_collection(processor,
                    [pre |-> "api", mid |-> "_collection_", post |-> ts],
                    cfg.generate_postman_docs, ts, failAt)
       IN /\ processor' = r.P
          /\ files' = WriteAll(files, r.written)
          /\ writes' = writes + Len(r.written)
          /\ finalized' = IF r.raised = None THEN finalized + 1 ELSE finalized
          /\ last' = Called("finalize", r.raised, FALSE)
          /\ results' = [results EXCEPT
                            !.postman = finalize_postman_outputs(@, r)]
    /\ pc' = "compile"
    /\ UNCHANGED <<cacheVars, cfg, cursor, inflight, done, contributed, report>>

SkipFinalization ==
    /\ pc = "finalize"
    /\ ~(cfg.generate_postman /\ results.postman # <<>>)
    /\ pc' = "compile"
    /\ UNCHANGED <<procVars, cacheVars, cfg, cursor, inflight, done, results, faults,
                   contributed, report>>

\* Phase 4.
CompileResult ==
    /\ pc = "compile"
    /\ report' = compile_result(results, cfg.total_sections)
    /\ pc' = "done"
    /\ UNCHANGED <<procVars, cacheVars, cfg, cursor, inflight, done, results, faults,
                   contributed>>

Next ==
    \/ UploadInputFiles
    \/ AnalyzeAndSection
    \/ CreateSharedAgent
    \/ SerialStart
    \/ \E resp \in CsvResponses \cup PostmanResponses \cup {[type |-> "mock"]} :
          SerialReturn(resp)
    \/ BatchStart
    \/ \E j \in 1..max_concurrent_agents,
          resp \in CsvResponses \cup {[type |-> "mock"]} :
          BatchTaskReturn(j, resp)
    \/ BatchJoin
    \/ \E ts \in Timestamps, failAt \in 0..3 : FinalizePostmanCollection(ts, failAt)
    \/ SkipFinalization
    \/ CompileResult

Spec == InitRun /\ [][Next]_vars

(***************************************************************************)
(* SpecMerge: contributions with every environment of EnvironmentsData     *)
(***************************************************************************)
NextMerge ==
    \/ \E items \in {<<>>, <<Req>>}, envs \in EnvironmentsData :
          ProcContribute(None, items, envs,
                         [section_id |-> "s1", section_name |-> None])
    \/ ProcReset

SpecMerge == InitProc /\ [][NextMerge]_vars

\* C7: variable merge is first-write-wins: a contribution never changes the
\* values merged for a key that the environment already holds, also when
\* the contribution carries that key with another value.
C7_FirstWriteWins ==
    [][\A k \in Keys :
          (HasKey(processor, k) /\ last'.n # last.n /\ last'.op = "contribute")
          => MergedValues(processor', k) = MergedValues(processor, k)]_vars

\* A contribution carrying k1 with another value than the merged one was made.
C7_Witness ==
    /\ last.op = "contribute" /\ last.conflict /\ last.raised = None
    /\ MergedValues(processor, "k1") = {"X"}

\* C4: once finalize has completed, a second finalize fails with
\* ConsolidationError and writes no file.
C4_SecondFinalizeFails ==
    [][(finalized >= 1 /\ last'.n # last.n /\ last'.op = "finalize")
       => (last'.raised = "ConsolidationError"
           /\ files' = files /\ writes' = writes)]_vars

\* C5: once finalize has completed, a contribution fails with
\* ConsolidationError and leaves the aggregate unchanged.
C5_ContributeAfterFinalizeFails ==
    [][(finalized >= 1 /\ last'.n # last.n /\ last'.op = "contribute")
       => (last'.raised = "ConsolidationError"
           /\ processor' = processor)]_vars

(***************************************************************************)
(* Properties of a run (Spec)                                              *)
(***************************************************************************)
AllResults == results.csv \o results.karate \o results.postman

\* C1: at no instant are two Postman tasks in flight, and the Postman task of
\* a section is in flight only when the Postman tasks of all the sections
\* before it have returned.
C1_SingleWriter ==
    \A t \in inflight :
        t.kind = "postman" =>
            /\ \A u \in inflight : u.kind = "postman" => u = t
            /\ Len(results.postman) = t.sec - 1

\* Parallel mode, the stateless batches are over, two sections have
\* contributed, the Postman task of the third section is in flight.
C1_Witness ==
    /\ cfg.parallel_processing
    /\ results.csv # <<>>
    /\ Task("postman", 3) \in inflight
    /\ last.contribs = 2

RECURSIVE SortedSeq(_)
SortedSeq(S) ==
    IF S = {} THEN <<>>
    ELSE LET m == CHOOSE x \in S : \A y \in S : x <= y
         IN <<m>> \o SortedSeq(S \ {m})

ExportedCollections ==
    {files[p].data : p \in {q \in DOMAIN files : files[q].kind = "collection"}}

FolderNames(collection) ==
    [i \in DOMAIN collection.item |-> collection.item[i].name]

\* C2: the folders of the exported collection are those of the sections that
\* contributed items, in section order.
C2_FolderOrder ==
    \A col \in ExportedCollections :
        FolderNames(col) =
            [i \in 1..Cardinality(Range(contributed)) |->
                create_readable_folder_name(
                    PlanSection(SortedSeq(Range(contributed))[i]).name)]

\* Three sections contributed, after parallel batches of stateless tasks.
C2_Witness ==
    /\ finalized = 1
    /\ cfg.parallel_processing /\ cfg.generate_csv /\ cfg.generate_karate
    /\ Len(contributed) = 3
    /\ \E col \in ExportedCollections : Len(col.item) = 3

Raised(batch_results) ==
    {j \in DOMAIN batch_results : "exception" \in DOMAIN batch_results[j]}

NewOutputs(before, after) ==
    FlattenSeq([k \in 1..3 |->
        LET kind == <<"csv", "karate", "postman">>[k]
        IN SubSeq(after[kind], Len(before[kind]) + 1, Len(after[kind]))])

\* C3: a batch of N tasks of which exactly one raised yields N outputs, one
\* of them failed with a non-empty error list and N-1 successful.
C3_BatchIsolation ==
    [][(/\ pc = "parallel" /\ cursor.started /\ inflight = {}
        /\ done # <<>> /\ done' = <<>>
        /\ Cardinality(Raised(done)) = 1)
       => LET new == NewOutputs(results, results')
          IN /\ Len(new) = Len(done)
             /\ Cardinality({i \in DOMAIN new : new[i].success}) = Len(done) - 1
             /\ \E i \in DOMAIN new : ~new[i].success /\ new[i].errors # <<>>]_vars

\* C6: a run with the Postman kind enabled finalizes the collection exactly
\* once, and no contribution follows the finalize call.
C6_FinalizedExactlyOnce ==
    /\ [](pc = "done" /\ cfg.generate_postman => finalized = 1)
    /\ [][last.finals >= 1 => last'.contribs = last.contribs]_vars

\* C6 as amended: the collection is finalized at most once, the finalize call
\* comes after the Postman task of every section has returned and no
\* contribution follows it; a run that compiles a report after at least one
\* contribution has finalized exactly once, unless the export failed.
C6_FinalizedOnceAfterAllSections ==
    /\ [](last.finals <= 1)
    /\ [](last.finals >= 1 =>
            inflight = {} /\ Len(results.postman) = cfg.total_sections)
    /\ [][last.finals >= 1 => last'.contribs = last.contribs]_vars
    /\ []((pc = "done" /\ report.kind = "compiled" /\ last.contribs >= 1)
          => (finalized = 1 \/ last.raised = "OSError"))

C6_Witness ==
    /\ pc = "done" /\ report.kind = "compiled"
    /\ finalized = 1
    /\ last.contribs = 3

\* C8: the token usage of the report is the sum of the token usage of every
\* output handed to the compiler, field by field.
C8_ReportAdditivity ==
    (pc = "done" /\ report.kind = "compiled") =>
        \A f \in {"input_tokens", "output_tokens", "total_tokens"} :
            report.total_token_usage[f] = TokenSum(AllResults, f)

\* A report over successful and failed outputs that all used tokens.
C8_Witness ==
    /\ pc = "done" /\ report.kind = "compiled"
    /\ \E i \in DOMAIN AllResults :
          ~AllResults[i].success /\ AllResults[i].token_usage.total_tokens > 0
    /\ \E i \in DOMAIN AllResults :
          AllResults[i].success /\ AllResults[i].token_usage.total_tokens > 0
    /\ report.total_token_usage.total_tokens > 5

\* C9: when a task of the run failed, the report has success = false and a
\* non-empty error list.
C9_FailureIsReported ==
    (pc = "done" /\ \E i \in DOMAIN AllResults : ~AllResults[i].success)
        => (~report.success /\ report.errors # <<>>)

\* C10: three sections, CSV and Postman enabled, sequential mode, nothing
\* fails: three CSV outputs, one exported collection with three folders and
\* a successful report.
C10_EndToEnd ==
    (/\ pc = "done"
     /\ cfg.total_sections = 3 /\ ~cfg.parallel_processing
     /\ cfg.generate_csv /\ cfg.generate_postman /\ ~cfg.generate_karate
     /\ faults = 0)
    => /\ Len(report.csv_outputs) = 3
       /\ Cardinality(ExportedCollections) = 1
       /\ \A col \in ExportedCollections : Len(col.item) = 3
       /\ report.success

\* C11: the success flag of the report is (no collected error) and (at least
\* one kind has at least one output in the report).
C11_SuccessFormula ==
    pc = "done" =>
        (report.success <=>
            (/\ report.errors = <<>>
             /\ \/ report.csv_outputs # <<>>
                \/ report.karate_outputs # <<>>
                \/ report.postman_outputs # <<>>))

\* A compiled report that holds outputs and errors, and is not a success.
C11_Witness ==
    /\ pc = "done" /\ report.kind = "compiled"
    /\ report.csv_outputs # <<>> /\ report.errors # <<>>
    /\ ~report.success

(***************************************************************************)
(* SpecCache: one FileManager over process restarts, with the local files  *)
(* changing between its steps                                              *)
(***************************************************************************)
InitCache ==
    /\ processor = FreshProcessor
    /\ files = <<>>
    /\ writes = 0
    /\ last = NoCall
    /\ finalized = 0
    /\ IdleRun
    /\ IdleCache

CountOf(seq, x) == Cardinality({i \in DOMAIN seq : seq[i] = x})

\* The record history.log keeps of an upload_file call that returned info;
\* pending are the calls suspended in _calculate_file_hash at that moment.
Returned(id, path, content, info, did_upload, before) ==
    [id |-> id, path |-> path, content |-> content,
     pending |-> {c.id : c \in {d \in calls : d.id # id}},
     info |-> info, uploaded |-> did_upload,
     uploads_before |-> before,
     uploads_after |-> before + (IF did_upload THEN 1 ELSE 0),
     epoch |-> history.epoch, removals |-> history.removals]

\* The user or another program changes what is at a path.
EditFile(path, state) ==
    /\ history.edits < MaxEdits
    /\ path \in EditablePaths /\ state \in {Missing, "c1", "c2"}
    /\ state # fs[path]
    /\ fs' = [fs EXCEPT ![path] = state]
    /\ history' = [history EXCEPT !.edits = @ + 1, !.fresh = @ \ {path}]
    /\ UNCHANGED <<registry, registry_file, uploaded, calls, procVars, runVars>>

\* upload_file up to its first await: _validate_file raises, or the call
\* suspends in _calculate_file_hash.
UploadStart(path) ==
    /\ history.n < MaxAcquire
    /\ LET err == validate_file(fs, path)
           id == history.n + 1
       IN IF err # None
          THEN /\ history' = [history EXCEPT
                      !.n = id, !.last_path = path, !.raised = err]
               /\ calls' = calls
          ELSE /\ history' = [history EXCEPT
                      !.n = id, !.last_path = path, !.raised = None]
               /\ calls' = calls \cup {[id |-> id, path |-> path]}
    /\ UNCHANGED <<fs, registry, registry_file, uploaded, procVars, runVars>>

\* upload_file from the end of the hashing to its return: lookup, upload,
\* add_file and _save_registry run without a suspension.  api_fails: the
\* call of client.files.create raises.
UploadFinish(call, api_fails) ==
    /\ call \in calls
    /\ calls' = calls \ {call}
    /\ IF fs[call.path] \notin Contents
       THEN /\ history' = [history EXCEPT
                   !.last_path = call.path, !.raised = "OSError"]
            /\ UNCHANGED <<registry, registry_file, uploaded>>
       ELSE LET content == fs[call.path]
                before == CountOf(uploaded, content)
                cached_file == get_file_by_hash(registry,
                                                calculate_file_hash(content))
                file_info == FileInfo(Len(uploaded) + 1, call.path, content)
            IN IF cached_file # NoneObj
               THEN /\ history' = [history EXCEPT
                           !.fresh = @ \cup {call.path}, !.log =
                           Append(@, Returned(call.id, call.path, content,
                                              cached_file, FALSE, before))]
                    /\ UNCHANGED <<registry, registry_file, uploaded>>
               ELSE IF api_fails
               THEN /\ history' = [history EXCEPT
                           !.last_path = call.path, !.raised = "APIError"]
                    /\ UNCHANGED <<registry, registry_file, uploaded>>
               ELSE /\ uploaded' = Append(uploaded, content)
                    /\ registry' = add_file(registry, file_info)
                    /\ registry_file' = save_registry(registry')
                    /\ history' = [history EXCEPT
                           !.fresh = @ \cup {call.path}, !.log =
                           Append(@, Returned(call.id, call.path, content,
                                              file_info, TRUE, before))]
    /\ UNCHANGED <<fs, procVars, runVars>>

\* The process ends and a new one starts: FileManager.__init__ loads the
\* registry, prunes it and saves it when an entry was removed.
StartProcess ==
    /\ history.epoch < MaxStarts
    /\ LET loaded == load_registry(registry_file)
           kept == cleanup_missing_files(loaded, fs)
       IN /\ registry' = kept
          /\ registry_file' = IF kept # loaded THEN save_registry(kept)
                              ELSE registry_file
          /\ history' = [history EXCEPT
                 !.epoch = @ + 1,
                 !.removals = @ + (IF kept # loaded THEN 1 ELSE 0)]
    /\ calls' = {}
    /\ UNCHANGED <<fs, uploaded, procVars, runVars>>

NextCache ==
    \/ \E path \in EditablePaths, state \in FileStates : EditFile(path, state)
    \/ \E path \in Paths : UploadStart(path)
    \/ \E call \in calls, api_fails \in BOOLEAN : UploadFinish(call, api_fails)
    \/ StartProcess

SpecCache == InitCache /\ [][NextCache]_vars

C14_HashMatchesSource ==
    \A i \in DOMAIN registry :
        fs[registry[i].file_path] \in Contents
            => registry[i].file_hash
                   = calculate_file_hash(fs[registry[i].file_path])

\* C17: an upload_file call for a path that is missing, oversized or of an
\* unsupported type raises at validation; no upload is made, the registry is
\* unchanged in memory and on disk, and the call does not go on.
C17_ValidationFailure ==
    [][history'.n # history.n =>
        LET path == history'.last_path
        IN (\/ fs[path] = Missing
            \/ fs[path] \in Contents /\ SizeMb(fs[path]) > max_file_size_mb
            \/ Suffix(path) \notin supported_file_types)
           => /\ history'.raised \in {"FileNotFoundError",
                                      "ValueError: File too large",
                                      "ValueError: Unsupported file type"}
              /\ uploaded' = uploaded
              /\ registry' = registry
              /\ registry_file' = registry_file
              /\ calls' = calls]_vars

\* A call for an oversized file raised while the registry holds an entry.
C17_Witness ==
    /\ history.raised = "ValueError: File too large"
    /\ history.last_path = "huge.pdf"
    /\ registry # <<>> /\ registry_file # <<>>
    /\ Len(uploaded) = 1

C16_NoDuplicateMessages ==
    pc = "done" =>
        /\ \A i, j \in DOMAIN report.errors :
              report.errors[i] = report.errors[j] => i = j
        /\ \A i, j \in DOMAIN report.warnings :
              report.warnings[i] = report.warnings[j] => i = j

C19_BoundedBatches ==
    /\ [](pc = "parallel" =>
            /\ Cardinality(inflight) <= max_concurrent_agents
            /\ \A t \in inflight : t.kind \in {"csv", "karate"}
            /\ \A t \in inflight :
                  \E k \in cursor.i..(cursor.i + max_concurrent_agents - 1) :
                      /\ k \in DOMAIN ParallelTasks(cfg)
                      /\ ParallelTasks(cfg)[k] = t)
    /\ [][(pc = "parallel" /\ inflight' \ inflight # {})
            => /\ inflight = {}
               /\ cursor'.i = cursor.i
               /\ \A t \in inflight' :
                     \E k \in cursor.i..(cursor.i + max_concurrent_agents - 1) :
                         /\ k \in DOMAIN ParallelTasks(cfg)
                         /\ ParallelTasks(cfg)[k] = t]_vars
    /\ [][(pc = "parallel" /\ cursor'.i > cursor.i) => inflight = {}]_vars

\* The second batch of six tasks is in flight, one of its tasks has ended.
C19_Witness ==
    /\ pc = "parallel" /\ cursor.i = max_concurrent_agents + 1
    /\ Len(ParallelTasks(cfg)) = 2 * max_concurrent_agents
    /\ Cardinality(inflight) = max_concurrent_agents - 1
    /\ Len(results.csv) + Len(results.karate) = max_concurrent_agents

\* C20: a run that reached scheduling ends with one output for every task
\* of the plan, in section order, whatever failed or raised on the way: for
\* each enabled kind, the outputs of sections 1..total_sections.
C20_NoRetryNoAbort ==
    (/\ pc = "done"
     /\ report.kind = "compiled" \/ report.errors = <<"task raised">>)
    => \A kind \in {"csv", "karate", "postman"} :
          LET enabled == CASE kind = "csv" -> cfg.generate_csv
                           [] kind = "karate" -> cfg.generate_karate
                           [] kind = "postman" -> cfg.generate_postman
          IN IF enabled
             THEN /\ Len(results[kind]) = cfg.total_sections
                  /\ \A i \in 1..cfg.total_sections :
                        results[kind][i].section_id = PlanSection(i).section_id
             ELSE results[kind] = <<>>

\* C21: in sequential mode at most one task is in flight; a task starts only
\* when none is in flight, and the task of kind k for section i starts when
\* the enabled kinds before k (CSV, then Karate, then Postman) have an output
\* for sections 1..i and k and the kinds after it for sections 1..i-1.
C21_SequentialOrder ==
    /\ [](pc = "sequential" => Cardinality(inflight) <= 1)
    /\ [][(pc = "sequential" /\ inflight' # inflight /\ inflight' # {})
            => /\ inflight = {}
               /\ \E t \in inflight' :
                     LET rank == [k \in {"csv", "karate", "postman"} |->
                                    CASE k = "csv" -> 1
                                      [] k = "karate" -> 2
                                      [] k = "postman" -> 3]
                         enabled == [k \in {"csv", "karate", "postman"} |->
                                       CASE k = "csv" -> cfg.generate_csv
                                         [] k = "karate" -> cfg.generate_karate
                                         [] k = "postman" -> cfg.generate_postman]
                     IN /\ inflight' = {t}
                        /\ enabled[t.kind]
                        /\ t.sec \in 1..cfg.total_sections
                        /\ \A k \in {"csv", "karate", "postman"} :
                              Len(results[k]) =
                                  IF ~enabled[k] THEN 0
                                  ELSE IF rank[k] < rank[t.kind] THEN t.sec
                                  ELSE t.sec - 1]_vars

\* The Karate task of the second section is in flight; all three kinds are
\* enabled.
C21_Witness ==
    /\ pc = "sequential" /\ inflight = {Task("karate", 2)}
    /\ cfg.generate_csv /\ cfg.generate_postman
    /\ cfg.total_sections = 3
    /\ Len(results.csv) = 2 /\ Len(results.postman) = 1

\* C22: when the finalization of the collection failed, every Postman output
\* of the run has success false and carries the finalization error, and the
\* report of the run has success false.
C22_FinalizationFailureSurfaced ==
    (/\ pc = "done" /\ report.kind = "compiled"
     /\ last.op = "finalize" /\ last.raised # None)
    => /\ \A i \in DOMAIN results.postman :
             /\ ~results.postman[i].success
             /\ "Collection finalization failed"
                    \in Range(results.postman[i].errors)
       /\ ~report.success

\* The contribute step processor -> processor' took a collection with these
\* items: the collection and the totals are those the items give.
ContributedItems(name, items, sec) ==
    LET collection_data == [name |-> name, item |-> items]
        P1 == IF processor.consolidated_collection = NoneObj
              THEN initialize_consolidated_collection(processor, collection_data)
              ELSE processor
        P2 == add_section_to_collection(P1, collection_data, sec.section_id,
                                        [section_name |-> sec.section_name])
    IN /\ last'.n = last.n + 1 /\ last'.op = "contribute"
       /\ processor'.consolidated_collection = P2.consolidated_collection
       /\ processor'.all_folders = P2.all_folders
       /\ processor'.total_requests = P2.total_requests
       /\ processor'.api_name = P2.api_name

\* C23 as stated: every contribution that is accepted adds exactly one folder
\* to the collection and one name to the folder list, whatever its items.
C23_OneFolderPerContribution ==
    [][(last'.n # last.n /\ last'.op = "contribute" /\ last'.raised = None)
        => LET before == IF processor.consolidated_collection = NoneObj
                         THEN 0
                         ELSE Len(processor.consolidated_collection.item)
           IN /\ Len(processor'.consolidated_collection.item) = before + 1
              /\ Len(processor'.all_folders)
                    = Len(processor.all_folders) + 1]_vars

\* C23 as amended: a contribution that is accepted and has at least one item
\* adds exactly one folder, holding its items, at the end of the collection
\* and one name at the end of the folder list; an accepted contribution
\* with no items adds no folder and no name.
C23_OneFolderPerNonEmptyContribution ==
    [][(last'.n # last.n /\ last'.op = "contribute" /\ last'.raised = None)
        => \A name \in CollectionNames, items \in ItemLists,
              sec \in ProcSections :
             ContributedItems(name, items, sec)
             => LET before == IF processor.consolidated_collection = NoneObj
                              THEN <<>>
                              ELSE processor.consolidated_collection.item
                    after == processor'.consolidated_collection.item
                IN IF items # <<>>
                   THEN /\ Len(after) = Len(before) + 1
                        /\ SubSeq(after, 1, Len(before)) = before
                        /\ after[Len(after)].item = items
                        /\ processor'.all_folders
                              = Append(processor.all_folders,
                                       after[Len(after)].name)
                   ELSE /\ after = before
                        /\ processor'.all_folders = processor.all_folders]_vars

\* Two contributions were accepted, one of them without items: one folder.
C23_Witness ==
    /\ last.op = "contribute" /\ last.raised = None
    /\ last.contribs = 2 /\ last.resets = 0
    /\ processor.consolidated_collection # NoneObj
    /\ Len(processor.consolidated_collection.item) = 1
    /\ Len(processor.all_folders) = 1

\* C24: no two variables of the merged environment have the same key.
C24_MergedKeysUnique ==
    processor.consolidated_environment # NoneObj =>
        \A i, j \in DOMAIN processor.consolidated_environment.values :
            (/\ processor.consolidated_environment.values[i].key # None
             /\ processor.consolidated_environment.values[i].key
                   = processor.consolidated_environment.values[j].key)
            => i = j

C25_ResetOncePerRun ==
    /\ [](last.resets <= 1)
    /\ [](last.contribs >= 1 => last.resets = 1)
    /\ [][(last'.n # last.n /\ last'.op = "reset")
            => (last.contribs = 0 /\ last.resets = 0)]_vars

\* C26: sections_processed of the report never exceeds the number of
\* sections of the run.
C26_SectionsProcessedBounded ==
    pc = "done" => report.sections_processed <= cfg.total_sections

\* C27: every output an execute returned is self-consistent: an output with
\* errors has success false (so an output with success true has no error).
C27_OutputSelfConsistent ==
    \A kind \in {"csv", "karate", "postman"} :
        \A i \in DOMAIN results[kind] :
            results[kind][i].errors # <<>> => ~results[kind][i].success

\* C28: when two upload_file calls that were in flight together return for
\* the same byte content, both return the same file id, which is that of the
\* content, the one that returns later uploads nothing, and the content is
\* uploaded exactly once by the two when the earlier one found no entry.
C28_IdempotentWhenInterleaved ==
    \A i, j \in DOMAIN history.log :
        LET a == history.log[i]
            b == history.log[j]
        IN (i < j /\ b.id \in a.pending /\ a.content = b.content)
           => /\ a.info.file_id = b.info.file_id
              /\ a.info.file_hash = calculate_file_hash(a.content)
              /\ uploaded[a.info.file_id] = a.content
              /\ ~b.uploaded
              /\ b.uploads_after = a.uploads_after
              /\ a.uploaded => a.uploads_after = a.uploads_before + 1

\* Two calls for the same content from two paths were suspended together;
\* the one that started later returned first and uploaded.
C28_Witness ==
    /\ Len(history.log) = 2
    /\ history.log[2].id \in history.log[1].pending
    /\ history.log[2].id < history.log[1].id
    /\ history.log[1].content = history.log[2].content
    /\ history.log[1].path # history.log[2].path
    /\ history.log[1].uploaded /\ ~history.log[2].uploaded
    /\ Len(uploaded) = 1

\* C29: for a path whose last returned upload_file call has not been followed
\* by a modification of the file, has_file_changed returns false, also when
\* the path was uploaded earlier with another content.
C29_UnchangedAfterUpload ==
    \A path \in history.fresh : ~has_file_changed(registry, fs, path)

\* C30: in every state of the processor the running totals agree with the
\* consolidated collection: all_folders lists the names of its folders in
\* their order, total_requests is the sum of the request counts of its
\* folders, and both are empty and zero while no collection is held.
C30_TotalsAgree ==
    LET RECURSIVE SumRequests(_)
        SumRequests(folders) ==
            IF folders = <<>> THEN 0
            ELSE count_requests_in_items(Head(folders).item)
                 + SumRequests(Tail(folders))
    IN IF processor.consolidated_collection = NoneObj
       THEN processor.total_requests = 0 /\ processor.all_folders = <<>>
       ELSE LET folders == processor.consolidated_collection.item
            IN /\ Len(processor.all_folders) = Len(folders)
               /\ \A i \in DOMAIN folders :
                      processor.all_folders[i] = folders[i].name
               /\ processor.total_requests = SumRequests(folders)

\* Two folders of different names and sizes were added, one of them after a
\* contribution without items.
C30_Witness ==
    /\ last.op = "contribute"
    /\ processor.consolidated_collection # NoneObj
    /\ Len(processor.all_folders) = 2
    /\ processor.all_folders[1] # processor.all_folders[2]
    /\ processor.total_requests = 3
    /\ count_requests_in_items(
           processor.consolidated_collection.item[1].item) = 1
====
